---- MODULE Spec2Model ----
(***************************************************************************)
(* PixelPendant firmware (PixelPendant.ino): the foreground context        *)
(* (loop(), the HTTP/WebSocket handlers it dispatches, the streaming loop  *)
(* of handleStream) and the background recordingCaptureTask, sharing the   *)
(* camera behind camMutex and a handful of unlocked globals.               *)
(*                                                                         *)
(* Foreground position is fpc (with fret, the place a called function      *)
(* returns to, and inStream, whether the call chain runs below             *)
(* handleStream); background position is bpc.  Every step of either        *)
(* context is one action.  Both tasks are pinned to core 1, the loop task  *)
(* at priority 1 and recordingCaptureTask at priority 0 (line 1279): the   *)
(* foreground can run between any two statements of the background task,   *)
(* and the background task runs whenever the foreground blocks (a delay, a *)
(* lock wait, card or network I/O inside a step).  The two contexts are    *)
(* therefore interleaved freely, except where the foreground passes from   *)
(* one statement to the next with no blocking call (ForegroundYields).     *)
(*                                                                         *)
(* Time: millis() differences are kept as elapsed values.  The touch       *)
(* timers take the representative values of TouchElapsed / ReleaseElapsed  *)
(* (below, at and beyond the threshold they are compared with); the        *)
(* stream timer advances in steps of STREAM_TIMEOUT \div StreamTicks.      *)
(* Guards that only compare millis() with a timestamp nothing else reads   *)
(* (the 15 s supervision period, the 100 ms touch period of the stream     *)
(* loop, the capture time of one frame) are inputs of the action.          *)
(*                                                                         *)
(* Where the code decides by a test (who may take the lock, whether a      *)
(* session is active, whether a timer has run out), the test is an         *)
(* operator of its own, written after the form a slip in the code would    *)
(* give it (CanTakeUnguarded before CanTake, TimedOutNever before          *)
(* TimedOut, ...): the properties below hold of the test as coded and fail *)
(* of the slipped form.                                                    *)
(*                                                                         *)
(* Init is the state setup() leaves when WiFi connected (servers started); *)
(* an offline start differs only in that no command ever arrives.  A       *)
(* second /stream request served from inside the streaming loop is not     *)
(* modelled.                                                               *)
(***************************************************************************)
EXTENDS Integers, Sequences, FiniteSets, TLC

(* ---- bounds ---- *)
MaxFrames == 2        \* frames the camera delivers to one recording
MaxTaps == 2          \* presses accumulated in touchCounter
MaxStamp == 1         \* distinct getTimestamp() values
StreamTicks == 2      \* time steps that make up STREAM_TIMEOUT
MaxStopFrames == 47   \* largest frameCount of SpecStop's sessions

(* ---- program constants ---- *)
LONG_HOLD_TIME == 3000
DOUBLE_TAP_DELAY == 400
MAX_WIFI_RETRIES == 3
STREAM_TIMEOUT == 120000
recordedFPS == 15
FLUSH_INTERVAL == 20
SLOW_FRAME_LIMIT == 3

Stamps == 1..MaxStamp
Kinds == {"jpg", "mjpeg", "thumb", "meta"}
TouchElapsed == {0, LONG_HOLD_TIME - 1, LONG_HOLD_TIME}
ReleaseElapsed == {0, DOUBLE_TAP_DELAY, DOUBLE_TAP_DELAY + 1}
StreamStep == STREAM_TIMEOUT \div StreamTicks
NoMeta == -1

VARIABLES
  camMutex,            \* "free", "fg" or "bg": holder of camMutex
  streamActive, isRecording, captureRequested,
  videoFile,           \* TRUE iff videoFile is an open File
  frameCount, thumbnailSaved,
  currentThumbPath,    \* 0 for "", else the stamp of /thumb_<stamp>.jpg
  streamFrameBuffer,   \* "empty", "fresh" (filled this iteration), "stale"
  lastCapturedImage,   \* TRUE iff non-empty
  sdCardReady,
  sensorSettings,      \* the sensor registers updateCameraSetting can write
  sdFiles,             \* files on the card: <<kind, stamp>>
  fileFrames,          \* frames appended to the file videoFile was opened on
  flushes,             \* videoFile.flush() calls recordFrame has issued on that file
  metaDuration,        \* number the last foreground step printed into a meta_
                       \* sidecar, or NoMeta
  galleryCache, galleryDirty,
  isTouched, touchCounter, longHoldTriggered,
  sinceTouch,          \* currentTime - lastTouchTime as last evaluated
  sinceRelease,        \* currentTime - lastTouchReleasedTime as last evaluated
  linkUp,              \* WiFi.status() == WL_CONNECTED
  wifiConnected, consecutiveWiFiFailures, mdnsStarted,
  softRun,             \* disconnected checks that issued a soft reconnect only
                       \* since the last connected check or hard reset (up to 2)
  fpc, fret, inStream,
  frame_skip_counter,
  streamElapsed,       \* millis() - streamStartTime at the last loop top
  bpc,
  bfc,                 \* the task's copy of frameCount during frameCount++
  framesOut,           \* frame buffers the task holds from esp_camera_fb_get()
  out,                 \* notifications / WiFi calls issued by the last foreground step
  reply,               \* HTTP response of the last foreground step
  received,            \* the WebSocket text message the last foreground step
                       \* handled, NoMsg if it handled none
  lastOp,              \* <<what the last foreground step completed, whether it
                       \* changed storage>>: a capture, delete or record-stop, an
                       \* ignored start/stop, a loop exit, a supervision check,
                       \* a touch poll (and whether it resolved the taps)
  gesture,             \* "none", "down1", "single", "done1", "down2", "double",
                       \* "done2", "other": the presses and releases seen
                       \* since touchCounter was last 0
  holdCalls,           \* long-hold stream toggles fired since the last press edge
  capCalls, recCalls   \* captureFrame / record toggles invoked by the touch detector
                       \* since the current gesture began

touchVars == <<isTouched, touchCounter, longHoldTriggered, sinceTouch, sinceRelease,
               gesture, holdCalls, capCalls, recCalls>>
wifiVars == <<linkUp, wifiConnected, consecutiveWiFiFailures, mdnsStarted,
              softRun>>
galVars == <<sdFiles, galleryCache, galleryDirty>>
recVars == <<isRecording, videoFile, frameCount, thumbnailSaved, currentThumbPath,
             fileFrames, flushes>>
strmVars == <<streamActive, captureRequested, streamFrameBuffer, frame_skip_counter,
              streamElapsed, inStream>>
bgVars == <<bpc, bfc, framesOut>>
fgVars == <<fpc, fret, out, reply, lastOp, metaDuration, received>>
vars == <<camMutex, lastCapturedImage, sdCardReady, sensorSettings, touchVars, wifiVars, galVars,
          recVars, strmVars, bgVars, fgVars>>

NoReply == "none"
NoRet == "none"
NoOp == <<"none", FALSE>>

\* WebSocket text messages: whether deserializeJson accepted the text, its
\* "action" and (for a setting command) its "param"
Text(parsed, action, param) ==
  [text |-> TRUE, parsed |-> parsed,
   action |-> IF parsed THEN action ELSE "none",
   param |-> IF parsed /\ action = "setting" THEN param ELSE "none"]
NoMsg == [text |-> FALSE, parsed |-> FALSE, action |-> "none", param |-> "none"]

\* lines 357-374: the registers as initCamera leaves them
SensorDefaults ==
  [brightness |-> 0, contrast |-> 0, saturation |-> 0, aec_value |-> 300,
   agc_gain |-> 0, hmirror |-> 0, vflip |-> 0]

\* the globals as declared (lines 123-176) and as setup() leaves them
SetupDefaults ==
  /\ streamActive = FALSE /\ captureRequested = FALSE
  /\ streamFrameBuffer = "empty" /\ lastCapturedImage = FALSE
  /\ metaDuration = NoMeta
  /\ galleryCache = {} /\ galleryDirty = TRUE
  /\ isTouched = FALSE /\ touchCounter = 0 /\ longHoldTriggered = FALSE
  /\ sinceTouch = 0 /\ sinceRelease = 0
  /\ linkUp = TRUE /\ wifiConnected = TRUE /\ consecutiveWiFiFailures = 0
  /\ softRun = 0
  /\ inStream = FALSE /\ frame_skip_counter = 0 /\ streamElapsed = 0
  /\ bfc = 0
  /\ out = {} /\ reply = NoReply /\ received = NoMsg
  /\ sensorSettings = SensorDefaults
  /\ lastOp = NoOp
  /\ gesture = "none" /\ holdCalls = 0 /\ capCalls = 0 /\ recCalls = 0

\* no recording session
IdleSession ==
  /\ isRecording = FALSE /\ videoFile = FALSE /\ frameCount = 0
  /\ thumbnailSaved = FALSE /\ currentThumbPath = 0 /\ fileFrames = 0 /\ flushes = 0

\* both contexts at the top of their loops
AtLoopTops ==
  /\ camMutex = "free"
  /\ fpc = "loop" /\ fret = NoRet
  /\ bpc = "b_check" /\ framesOut = 0

\* the state setup() leaves, on a card that holds the files card; mounted
\* and mdns are the outcomes SD.begin and MDNS.begin may have had
InitWith(card, mounted, mdns) ==
  /\ SetupDefaults
  /\ IdleSession
  /\ AtLoopTops
  /\ sdCardReady \in mounted
  /\ sdFiles = card
  /\ mdnsStarted \in mdns

AllFiles == Kinds \X Stamps

\* first boot on an empty card
Init == InitWith({}, BOOLEAN, BOOLEAN)

\* boot with a mounted card that already holds files of earlier runs under
\* every name, the name-discovery service up
InitUsedCard == InitWith(AllFiles, {TRUE}, {TRUE})

(* ---- helpers ---- *)

\* what one foreground step emits: notifications and WiFi calls, the HTTP
\* response, the storage operation it completed, the sidecar value written
EmitAfter(msg, o, r, op, md) ==
  /\ out' = o /\ reply' = r /\ lastOp' = op /\ metaDuration' = md
  /\ received' = msg
Emit(o, r, op, md) == EmitAfter(NoMsg, o, r, op, md)
\* a step of webSocketEvent on a text message
Heard(msg, o, op) == EmitAfter(msg, o, NoReply, op, NoMeta)
Silent == Emit({}, NoReply, NoOp, NoMeta)
Notify(o) == Emit(o, NoReply, NoOp, NoMeta)

\* xSemaphoreTake succeeds iff nobody holds the mutex
CanTakeUnguarded == TRUE
CanTake == camMutex = "free"

\* int / int of C++ (truncation toward zero)
CDiv(a, b) == IF a >= 0 THEN a \div b ELSE -((-a) \div b)

\* line 231
DurationSecRounded(fc) == CDiv(fc + (recordedFPS \div 2), recordedFPS)
DurationSec(fc) == CDiv(fc, recordedFPS)

\* SD.open(..., FILE_WRITE) can only succeed on a mounted card
OpenOutcomes == IF sdCardReady THEN BOOLEAN ELSE {FALSE}

\* where a WebSocket message handler / an HTTP handler returns to
AfterWs == IF inStream THEN "s_touch" ELSE "loop"
AfterHttp == IF inStream THEN "s_ws" ELSE "loop"

Inc2(n) == IF n < 2 THEN n + 1 ELSE 2

\* the return address is dropped when the called function returns
Returning == fret' = IF fpc' = fret THEN NoRet ELSE fret

(***************************************************************************)
(* Background context: recordingCaptureTask                                *)
(***************************************************************************)

\* line 257: while(true) { if (isRecording && videoFile)
BgCheck ==
  /\ bpc = "b_check"
  /\ bpc' = IF isRecording /\ videoFile THEN "b_stream" ELSE "b_check"
  /\ UNCHANGED <<camMutex, lastCapturedImage, sdCardReady, sensorSettings, touchVars, wifiVars,
                 galVars, recVars, strmVars, bfc, framesOut, fgVars>>

\* line 264: if (!streamActive) ... else vTaskDelay(5)
BgStreamCheck ==
  /\ bpc = "b_stream"
  /\ bpc' = IF ~streamActive THEN "b_take" ELSE "b_check"
  /\ UNCHANGED <<camMutex, lastCapturedImage, sdCardReady, sensorSettings, touchVars, wifiVars,
                 galVars, recVars, strmVars, bfc, framesOut, fgVars>>

\* line 265: xSemaphoreTake(camMutex, 50 ms): taken, or timed out while the
\* foreground holds it (then line 279 and the next iteration)
BgTake ==
  /\ bpc = "b_take"
  /\ \/ /\ CanTake
        /\ camMutex' = "bg"
        /\ bpc' = "b_get"
     \/ /\ camMutex = "fg"
        /\ camMutex' = camMutex
        /\ bpc' = "b_check"
  /\ UNCHANGED <<lastCapturedImage, sdCardReady, sensorSettings, touchVars, wifiVars,
                 galVars, recVars, strmVars, bfc, framesOut, fgVars>>

\* lines 266-267, 274-276: esp_camera_fb_get() returns a frame or NULL
BgGet(fbOk) ==
  /\ bpc = "b_get"
  /\ fbOk => frameCount < MaxFrames
  /\ bpc' = IF fbOk THEN "b_rf" ELSE "b_give"
  /\ framesOut' = IF fbOk THEN framesOut + 1 ELSE framesOut
  /\ UNCHANGED <<camMutex, lastCapturedImage, sdCardReady, sensorSettings, touchVars, wifiVars,
                 galVars, recVars, strmVars, bfc, fgVars>>

\* line 294 (fb is non-null here): if (!isRecording || !fb || !videoFile) return
BgRecordCheck ==
  /\ bpc = "b_rf"
  /\ bpc' = IF ~isRecording \/ ~videoFile THEN "b_give" ELSE "b_thumb"
  /\ UNCHANGED <<camMutex, lastCapturedImage, sdCardReady, sensorSettings, touchVars, wifiVars,
                 galVars, recVars, strmVars, bfc, framesOut, fgVars>>

\* lines 297-305: first frame of the session is saved as the thumbnail
BgThumb(thumbOk) ==
  /\ bpc = "b_thumb"
  /\ thumbOk \in OpenOutcomes
  /\ IF ~thumbnailSaved /\ thumbOk
       THEN /\ thumbnailSaved' = TRUE
            /\ sdFiles' = sdFiles \cup {<<"thumb", currentThumbPath>>}
       ELSE UNCHANGED <<thumbnailSaved, sdFiles>>
  /\ bpc' = "b_write"
  /\ UNCHANGED <<camMutex, lastCapturedImage, sdCardReady, sensorSettings, touchVars, wifiVars,
                 galleryCache, galleryDirty, isRecording, videoFile, frameCount,
                 currentThumbPath, fileFrames, flushes, strmVars, bfc, framesOut, fgVars>>

\* lines 308-312: the frame is appended if videoFile is (still) open
BgWrite ==
  /\ bpc = "b_write"
  /\ fileFrames' = IF videoFile THEN fileFrames + 1 ELSE fileFrames
  /\ bpc' = "b_inc"
  /\ UNCHANGED <<camMutex, lastCapturedImage, sdCardReady, sensorSettings, touchVars, wifiVars,
                 galVars, isRecording, videoFile, frameCount, thumbnailSaved,
                 currentThumbPath, flushes, strmVars, bfc, framesOut, fgVars>>

\* line 314, frameCount++ on a plain int: load ...
BgIncRead ==
  /\ bpc = "b_inc"
  /\ bfc' = frameCount
  /\ bpc' = "b_incw"
  /\ UNCHANGED <<camMutex, lastCapturedImage, sdCardReady, sensorSettings, touchVars, wifiVars,
                 galVars, recVars, strmVars, framesOut, fgVars>>

\* line 317: if (frameCount % 20 == 0)
FlushDueAlways(n) == TRUE
FlushDue(n) == n % FLUSH_INTERVAL = 0

\* ... and store; lines 316-319 flush every FLUSH_INTERVAL frames
BgIncWrite ==
  /\ bpc = "b_incw"
  /\ frameCount' = bfc + 1
  /\ flushes' = IF FlushDue(bfc + 1) THEN flushes + 1 ELSE flushes
  /\ bfc' = 0
  /\ bpc' = "b_give"
  /\ UNCHANGED <<camMutex, lastCapturedImage, sdCardReady, sensorSettings, touchVars, wifiVars,
                 galVars, isRecording, videoFile, thumbnailSaved, currentThumbPath,
                 fileFrames, strmVars, framesOut, fgVars>>

\* line 269: esp_camera_fb_return(fb), inside if (fb)
FramesAfterReturnKept == framesOut
FramesAfterReturn == IF framesOut > 0 THEN framesOut - 1 ELSE 0

\* lines 269-279: esp_camera_fb_return, xSemaphoreGive, vTaskDelay(40)
BgGive ==
  /\ bpc = "b_give"
  /\ camMutex' = "free"
  /\ bpc' = "b_check"
  /\ framesOut' = FramesAfterReturn
  /\ UNCHANGED <<lastCapturedImage, sdCardReady, sensorSettings, touchVars, wifiVars,
                 galVars, recVars, strmVars, bfc, fgVars>>

\* line 1279: at priority 0 the task runs only while the loop task is
\* blocked; no blocking call separates lines 211 and 212 of startRecording
ForegroundYields == fpc # "sr_reset"

RecordingCaptureTask ==
  /\ ForegroundYields
  /\ \/ BgCheck \/ BgStreamCheck \/ BgTake
     \/ (\E fbOk \in BOOLEAN : BgGet(fbOk))
     \/ BgRecordCheck
     \/ (\E thumbOk \in BOOLEAN : BgThumb(thumbOk))
     \/ BgWrite \/ BgIncRead \/ BgIncWrite \/ BgGive

(***************************************************************************)
(* Foreground: startRecording / stopRecording / captureFrame               *)
(* Each is entered with fpc at its first step and fret set by the caller.  *)
(***************************************************************************)

\* line 201
AlreadyRecordingIgnored == FALSE
AlreadyRecording == isRecording

\* lines 206-209: if (!videoFile) return
StartContinuesAlways(openOk) == TRUE
StartContinues(openOk) == openOk

\* lines 200-209: early return when active; else open /<stamp>.mjpeg
StartRecording(openOk, s) ==
  /\ fpc = "sr"
  /\ IF AlreadyRecording
       THEN /\ fpc' = fret
            /\ Emit({}, NoReply, <<"startIgnored", FALSE>>, NoMeta)
            /\ UNCHANGED <<videoFile, sdFiles, fileFrames, flushes>>
       ELSE /\ openOk \in OpenOutcomes
            /\ videoFile' = openOk
            /\ IF openOk
                 THEN /\ sdFiles' = sdFiles \cup {<<"mjpeg", s>>}
                      /\ fileFrames' = 0 /\ flushes' = 0
                 ELSE UNCHANGED <<sdFiles, fileFrames, flushes>>
            /\ IF StartContinues(openOk)
                 THEN /\ Silent
                      /\ fpc' = "sr_flag"
                 ELSE /\ Emit({}, NoReply, <<"startFailed", FALSE>>, NoMeta)
                      /\ fpc' = fret
  /\ UNCHANGED <<camMutex, lastCapturedImage, sdCardReady, sensorSettings, touchVars, wifiVars,
                 galleryCache, galleryDirty, isRecording, frameCount, thumbnailSaved,
                 currentThumbPath, strmVars, bgVars>>
  /\ Returning

\* line 211
StartRecordingFlag ==
  /\ fpc = "sr_flag"
  /\ Silent
  /\ isRecording' = TRUE
  /\ fpc' = "sr_reset"
  /\ UNCHANGED <<camMutex, lastCapturedImage, sdCardReady, sensorSettings, touchVars, wifiVars,
                 galVars, videoFile, frameCount, thumbnailSaved, currentThumbPath,
                 fileFrames, flushes, strmVars, bgVars, fret>>

\* lines 212-218
StartRecordingReset(s) ==
  /\ fpc = "sr_reset"
  /\ Notify({"recording_started"})
  /\ frameCount' = 0
  /\ thumbnailSaved' = FALSE
  /\ currentThumbPath' = s
  /\ fpc' = fret
  /\ UNCHANGED <<camMutex, lastCapturedImage, sdCardReady, sensorSettings, touchVars, wifiVars,
                 galVars, isRecording, videoFile, fileFrames, flushes, strmVars, bgVars>>
  /\ Returning

\* line 222
NotRecordingIgnored == FALSE
NotRecording == ~isRecording

\* lines 221-224
StopRecording ==
  /\ fpc = "st"
  /\ IF NotRecording
       THEN /\ fpc' = fret
            /\ Emit({}, NoReply, <<"stopIgnored", FALSE>>, NoMeta)
            /\ UNCHANGED isRecording
       ELSE /\ Silent
            /\ isRecording' = FALSE
            /\ fpc' = "st_close"
  /\ UNCHANGED <<camMutex, lastCapturedImage, sdCardReady, sensorSettings, touchVars, wifiVars,
                 galVars, videoFile, frameCount, thumbnailSaved, currentThumbPath,
                 fileFrames, flushes, strmVars, bgVars>>
  /\ Returning

\* lines 226-229
StopRecordingClose ==
  /\ fpc = "st_close"
  /\ Silent
  /\ videoFile' = FALSE
  /\ fpc' = "st_meta"
  /\ UNCHANGED <<camMutex, lastCapturedImage, sdCardReady, sensorSettings, touchVars, wifiVars,
                 galVars, isRecording, frameCount, thumbnailSaved, currentThumbPath,
                 fileFrames, flushes, strmVars, bgVars, fret>>

\* lines 231-249: duration sidecar, dirty mark, notifications
StopRecordingMeta(metaOk) ==
  /\ fpc = "st_meta"
  /\ metaOk \in OpenOutcomes
  /\ Emit({"recording_stopped", "refresh_gallery"}, NoReply, <<"recordStop", TRUE>>,
          IF metaOk THEN DurationSec(frameCount) ELSE NoMeta)
  /\ sdFiles' = IF metaOk THEN sdFiles \cup {<<"meta", currentThumbPath>>} ELSE sdFiles
  /\ galleryDirty' = TRUE
  /\ fpc' = fret
  /\ UNCHANGED <<camMutex, lastCapturedImage, sdCardReady, sensorSettings, touchVars, wifiVars,
                 galleryCache, recVars, strmVars, bgVars>>
  /\ Returning

(***************************************************************************)
(* captureFrame (lines 432-470), entered at fpc = "cf"                     *)
(***************************************************************************)

\* line 433: the test that hands the capture to the streaming loop
DeferToStreamNever == FALSE
DeferToStream == streamActive

\* lines 432-439: defer while streaming; else xSemaphoreTake(camMutex, 100 ms),
\* on a timeout only line 469 runs
CaptureFrame ==
  /\ fpc = "cf"
  /\ IF DeferToStream
       THEN /\ captureRequested' = TRUE
            /\ fpc' = fret
            /\ Silent
            /\ UNCHANGED camMutex
       ELSE /\ UNCHANGED captureRequested
            /\ \/ /\ CanTake
                  /\ camMutex' = "fg"
                  /\ fpc' = "cf_body"
                  /\ Silent
               \/ /\ camMutex = "bg"
                  /\ camMutex' = camMutex
                  /\ fpc' = fret
                  /\ Notify({"refresh_gallery"})
  /\ UNCHANGED <<lastCapturedImage, sdCardReady, sensorSettings, touchVars, wifiVars, galVars,
                 recVars, streamActive, streamFrameBuffer, frame_skip_counter,
                 streamElapsed, inStream, bgVars>>
  /\ Returning

\* lines 440-469 with the mutex held: fresh frame or NULL (return without
\* notification), save to /<stamp>.jpg if the file opens, give the mutex
CaptureFrameBody(fbOk, openOk, s) ==
  /\ fpc = "cf_body"
  /\ openOk \in OpenOutcomes
  /\ camMutex' = "free"
  /\ fpc' = fret
  /\ IF ~fbOk
       THEN /\ Silent
            /\ UNCHANGED <<sdFiles, lastCapturedImage, galleryDirty>>
       ELSE /\ Emit({"refresh_gallery"}, NoReply, <<"capture", openOk>>, NoMeta)
            /\ IF openOk
                 THEN /\ sdFiles' = sdFiles \cup {<<"jpg", s>>}
                      /\ lastCapturedImage' = TRUE
                      /\ galleryDirty' = TRUE
                 ELSE UNCHANGED <<sdFiles, lastCapturedImage, galleryDirty>>
  /\ UNCHANGED <<sdCardReady, sensorSettings, touchVars, wifiVars, galleryCache, recVars, strmVars,
                 bgVars>>
  /\ Returning

(***************************************************************************)
(* captureStreamFrame (lines 394-427), entered at fpc = "csf"              *)
(***************************************************************************)

\* line 395: xSemaphoreTake(camMutex, 50 ms)
CaptureStreamFrame ==
  /\ fpc = "csf"
  /\ Silent
  /\ \/ /\ CanTake
        /\ camMutex' = "fg"
        /\ fpc' = "csf_body"
     \/ /\ camMutex = "bg"
        /\ camMutex' = camMutex
        /\ fpc' = "s_send"
  /\ UNCHANGED <<lastCapturedImage, sdCardReady, sensorSettings, touchVars, wifiVars, galVars,
                 recVars, strmVars, bgVars, fret>>

\* lines 405-407 and 294: the stream's frame goes to the recording
StreamRecordsNever == FALSE
StreamRecords == isRecording /\ videoFile

\* lines 396-425 with the mutex held; recordFrame (293-320) runs inline
CaptureStreamFrameBody(fbOk, thumbOk, openOk, s) ==
  /\ fpc = "csf_body"
  /\ thumbOk \in OpenOutcomes /\ openOk \in OpenOutcomes
  /\ camMutex' = "free"
  /\ fpc' = "s_send"
  /\ IF ~fbOk
       THEN /\ Silent
            /\ UNCHANGED <<streamFrameBuffer, recVars, captureRequested, galVars>>
       ELSE LET rec == StreamRecords
                thumb == rec /\ ~thumbnailSaved /\ thumbOk
                still == captureRequested /\ openOk
            IN /\ rec => frameCount < MaxFrames
               /\ streamFrameBuffer' = "fresh"
               /\ thumbnailSaved' = (thumbnailSaved \/ thumb)
               /\ fileFrames' = IF rec THEN fileFrames + 1 ELSE fileFrames
               /\ frameCount' = IF rec THEN frameCount + 1 ELSE frameCount
               /\ flushes' = IF rec /\ FlushDue(frameCount + 1) THEN flushes + 1
                                                                ELSE flushes
               /\ sdFiles' = sdFiles
                     \cup (IF thumb THEN {<<"thumb", currentThumbPath>>} ELSE {})
                     \cup (IF still THEN {<<"jpg", s>>} ELSE {})
               /\ galleryDirty' = (galleryDirty \/ still)
               /\ Emit(IF still THEN {"refresh_gallery"} ELSE {}, NoReply,
                       IF captureRequested THEN <<"streamCapture", openOk>> ELSE NoOp,
                       NoMeta)
               /\ captureRequested' = FALSE
               /\ UNCHANGED <<isRecording, videoFile, currentThumbPath, galleryCache>>
  /\ UNCHANGED <<lastCapturedImage, sdCardReady, sensorSettings, touchVars, wifiVars, streamActive,
                 frame_skip_counter, streamElapsed, inStream, bgVars, fret>>

(***************************************************************************)
(* HTTP handlers.  A request is dispatched by server.handleClient(): from  *)
(* loop() only while WiFi is connected (line 1337), from the streaming     *)
(* loop at line 776.                                                       *)
(***************************************************************************)

HttpPoint == (fpc = "loop" /\ linkUp) \/ fpc = "s_http"

\* the listing rebuildGalleryCache builds from the card: no thumbnails,
\* only .jpg and .mjpeg (lines 876-913)
Listing(files) == {f \in files : f[1] \in {"jpg", "mjpeg"}}
EmptyListing == {}

\* lines 856-925
RebuiltCacheUnchecked(rootOk) ==
  IF ~sdCardReady THEN EmptyListing ELSE Listing(sdFiles)
RebuiltCache(rootOk) ==
  IF ~sdCardReady \/ ~rootOk THEN EmptyListing ELSE Listing(sdFiles)

\* line 929: if (galleryDirty) rebuildGalleryCache()
MustRebuildNever == FALSE
MustRebuild == galleryDirty

\* lines 927-934
HandleGallery(rootOk) ==
  /\ HttpPoint
  /\ rootOk \in OpenOutcomes
  /\ galleryCache' = IF MustRebuild THEN RebuiltCache(rootOk) ELSE galleryCache
  /\ galleryDirty' = FALSE
  /\ Emit({}, <<200, galleryCache'>>,
          <<IF galleryDirty /\ (~sdCardReady \/ ~rootOk) THEN "galleryEmpty"
                                                         ELSE "gallery", FALSE>>,
          NoMeta)
  /\ fpc' = AfterHttp
  /\ UNCHANGED <<camMutex, lastCapturedImage, sdCardReady, sensorSettings, touchVars, wifiVars,
                 sdFiles, recVars, strmVars, bgVars, fret>>

\* lines 960-979; hasName = server.hasArg("name")
HandleDeleteImage(hasName, name, removeOk) ==
  /\ HttpPoint
  /\ fpc' = AfterHttp
  /\ IF ~hasName
       THEN /\ Emit({}, <<400, {}>>, NoOp, NoMeta)
            /\ UNCHANGED <<sdFiles, galleryDirty>>
       ELSE IF name \notin sdFiles
         THEN /\ Emit({}, <<404, {}>>, NoOp, NoMeta)
              /\ UNCHANGED <<sdFiles, galleryDirty>>
         ELSE IF removeOk
           THEN /\ sdFiles' = sdFiles \ {name}
                /\ galleryDirty' = TRUE
                /\ Emit({}, <<200, {}>>, <<"delete", TRUE>>, NoMeta)
           ELSE /\ Emit({}, <<500, {}>>, <<"delete", FALSE>>, NoMeta)
                /\ UNCHANGED <<sdFiles, galleryDirty>>
  /\ UNCHANGED <<camMutex, lastCapturedImage, sdCardReady, sensorSettings, touchVars, wifiVars,
                 galleryCache, recVars, strmVars, bgVars, fret>>

\* lines 981-1004: every .jpg/.mjpeg (thumbnails included, sidecars not) is
\* removed unless its SD.remove fails; kept = the files whose removal failed
HandleDeleteAll(rootOk, kept) ==
  /\ HttpPoint
  /\ rootOk \in OpenOutcomes
  /\ fpc' = AfterHttp
  /\ IF ~rootOk
       THEN /\ Emit({}, <<500, {}>>, <<"deleteAll", FALSE>>, NoMeta)
            /\ UNCHANGED <<sdFiles, galleryDirty>>
       ELSE /\ kept \subseteq {f \in sdFiles : f[1] # "meta"}
            /\ sdFiles' = {f \in sdFiles : f[1] = "meta"} \cup kept
            /\ galleryDirty' = TRUE
            /\ Emit({"refresh_gallery"}, <<200, {}>>,
                    <<"deleteAll", sdFiles' # sdFiles>>, NoMeta)
  /\ UNCHANGED <<camMutex, lastCapturedImage, sdCardReady, sensorSettings, touchVars, wifiVars,
                 galleryCache, recVars, strmVars, bgVars, fret>>

\* lines 837-838
HandleCapture ==
  /\ HttpPoint
  /\ Silent
  /\ fpc' = "cf"
  /\ fret' = "hc_reply"
  /\ UNCHANGED <<camMutex, lastCapturedImage, sdCardReady, sensorSettings, touchVars, wifiVars,
                 galVars, recVars, strmVars, bgVars>>

\* lines 840-844
HandleCaptureReply ==
  /\ fpc = "hc_reply"
  /\ Emit({}, IF lastCapturedImage THEN <<200, {}>> ELSE <<500, {}>>, NoOp, NoMeta)
  /\ fpc' = AfterHttp
  /\ UNCHANGED <<camMutex, lastCapturedImage, sdCardReady, sensorSettings, touchVars, wifiVars,
                 galVars, recVars, strmVars, bgVars, fret>>

(***************************************************************************)
(* handleStream (lines 712-835)                                            *)
(***************************************************************************)

\* lines 712-715
HandleStream ==
  /\ HttpPoint /\ ~inStream
  /\ streamActive' = TRUE
  /\ Notify({"stream_started"})
  /\ fpc' = "hs_client"
  /\ UNCHANGED <<camMutex, lastCapturedImage, sdCardReady, sensorSettings, touchVars, wifiVars,
                 galVars, recVars, captureRequested, streamFrameBuffer,
                 frame_skip_counter, streamElapsed, inStream, bgVars, fret>>

\* lines 717-735: early return if the client is already gone, else the
\* response header and the loop's locals
HandleStreamClient(connected) ==
  /\ fpc = "hs_client"
  /\ IF ~connected
       THEN /\ Emit({}, NoReply, <<"exit_early", FALSE>>, NoMeta)
            /\ streamActive' = FALSE
            /\ fpc' = "loop"
            /\ UNCHANGED inStream
       ELSE /\ Silent
            /\ inStream' = TRUE
            /\ fpc' = "s_top"
            /\ UNCHANGED streamActive
  /\ frame_skip_counter' = 0
  /\ streamElapsed' = 0
  /\ UNCHANGED <<camMutex, lastCapturedImage, sdCardReady, sensorSettings, touchVars, wifiVars,
                 galVars, recVars, captureRequested, streamFrameBuffer, bgVars, fret>>

\* line 738
TimedOutNever(elapsed) == FALSE
TimedOut(elapsed) == elapsed > STREAM_TIMEOUT

\* line 737: the flag half of the loop condition
StreamWantedAlways == TRUE
StreamWanted == streamActive

\* lines 737-751: loop condition, timeout, client object, then the capture
StreamTop(connected, clientValid) ==
  /\ fpc = "s_top"
  /\ LET why == IF ~connected THEN "exit_disconnect"
                ELSE IF ~StreamWanted THEN "exit_flag"
                ELSE IF TimedOut(streamElapsed) THEN "exit_timeout"
                ELSE IF ~clientValid THEN "exit_client"
                ELSE "none"
     IN /\ fpc' = IF why = "none" THEN "csf" ELSE "s_end"
        /\ Emit({}, NoReply, <<why, FALSE>>, NoMeta)
  /\ UNCHANGED <<camMutex, lastCapturedImage, sdCardReady, sensorSettings, touchVars, wifiVars,
                 galVars, recVars, strmVars, bgVars, fret>>

\* one loop iteration takes ticks time steps of the stream clock
Later(ticks) ==
  IF streamElapsed + ticks * StreamStep > STREAM_TIMEOUT
    THEN STREAM_TIMEOUT + StreamStep
    ELSE streamElapsed + ticks * StreamStep

\* lines 753-770: slow-frame skip (continue) or send the buffer
StreamSend(slow, ticks) ==
  /\ fpc = "s_send"
  /\ IF streamFrameBuffer = "empty"
       THEN /\ Silent
            /\ fpc' = "s_http"
            /\ UNCHANGED <<frame_skip_counter, streamFrameBuffer, streamElapsed>>
       ELSE /\ streamFrameBuffer' = "stale"
            /\ IF slow /\ frame_skip_counter + 1 < SLOW_FRAME_LIMIT
                 THEN /\ frame_skip_counter' = frame_skip_counter + 1
                      /\ Silent
                      /\ streamElapsed' = Later(ticks)
                      /\ fpc' = "s_top"
                 ELSE /\ frame_skip_counter' = IF slow THEN 0 ELSE frame_skip_counter
                      /\ Notify({IF streamFrameBuffer = "fresh" THEN "frame_new"
                                                                ELSE "frame_again"})
                      /\ UNCHANGED streamElapsed
                      /\ fpc' = "s_http"
  /\ UNCHANGED <<camMutex, lastCapturedImage, sdCardReady, sensorSettings, touchVars, wifiVars,
                 galVars, recVars, streamActive, captureRequested, inStream,
                 bgVars, fret>>

\* line 776 with no pending request, line 777 with no pending message
StreamNoRequest ==
  /\ fpc = "s_http"
  /\ Silent
  /\ fpc' = "s_ws"
  /\ UNCHANGED <<camMutex, lastCapturedImage, sdCardReady, sensorSettings, touchVars, wifiVars,
                 galVars, recVars, strmVars, bgVars, fret>>

StreamNoMessage ==
  /\ fpc = "s_ws"
  /\ Silent
  /\ fpc' = "s_touch"
  /\ UNCHANGED <<camMutex, lastCapturedImage, sdCardReady, sensorSettings, touchVars, wifiVars,
                 galVars, recVars, strmVars, bgVars, fret>>

\* lines 832-834 (the loop's locals end with it)
StreamEnd ==
  /\ fpc = "s_end"
  /\ streamActive' = FALSE
  /\ inStream' = FALSE
  /\ frame_skip_counter' = 0
  /\ streamElapsed' = 0
  /\ Notify({"stream_stopped"})
  /\ fpc' = "loop"
  /\ UNCHANGED <<camMutex, lastCapturedImage, sdCardReady, sensorSettings, touchVars, wifiVars,
                 galVars, recVars, captureRequested, streamFrameBuffer, bgVars, fret>>

(***************************************************************************)
(* webSocketEvent, WStype_TEXT (lines 1033-1076), dispatched by            *)
(* webSocket.loop() from loop() (line 1336) or the streaming loop (777)    *)
(***************************************************************************)

WsPoint == fpc \in {"loop", "s_ws"}

WsStreamActions == {"stream_start", "stream_stop", "stream_toggle"}
WsCallActions == {"capture", "record_start", "record_stop"}

\* lines 1041-1052
WsStream(action) ==
  /\ WsPoint
  /\ action \in WsStreamActions
  /\ streamActive' = CASE action = "stream_start" -> TRUE
                       [] action = "stream_stop" -> FALSE
                       [] action = "stream_toggle" -> ~streamActive
  /\ Heard(Text(TRUE, action, "none"),
           IF action = "stream_toggle"
             THEN {IF streamActive THEN "toggle_stopped" ELSE "toggle_started"}
             ELSE {},
           NoOp)
  /\ fpc' = AfterWs
  /\ UNCHANGED <<camMutex, lastCapturedImage, sdCardReady, sensorSettings, touchVars, wifiVars,
                 galVars, recVars, captureRequested, streamFrameBuffer,
                 frame_skip_counter, streamElapsed, inStream, bgVars, fret>>

\* lines 1053-1059
WsCall(action) ==
  /\ WsPoint
  /\ action \in WsCallActions
  /\ Heard(Text(TRUE, action, "none"), {}, NoOp)
  /\ fpc' = CASE action = "capture" -> "cf"
              [] action = "record_start" -> "sr"
              [] action = "record_stop" -> "st"
  /\ fret' = AfterWs
  /\ UNCHANGED <<camMutex, lastCapturedImage, sdCardReady, sensorSettings, touchVars, wifiVars,
                 galVars, recVars, strmVars, bgVars>>

\* lines 1060-1067
WsDelete(name, removeOk) ==
  /\ WsPoint
  /\ fpc' = AfterWs
  /\ IF name \in sdFiles
       THEN IF removeOk
              THEN /\ sdFiles' = sdFiles \ {name}
                   /\ Heard(Text(TRUE, "delete", "none"), {"refresh_gallery"},
                            <<"wsDelete", TRUE>>)
              ELSE /\ Heard(Text(TRUE, "delete", "none"), {}, <<"wsDelete", FALSE>>)
                   /\ UNCHANGED sdFiles
       ELSE /\ Heard(Text(TRUE, "delete", "none"), {}, NoOp)
            /\ UNCHANGED sdFiles
  /\ UNCHANGED <<camMutex, lastCapturedImage, sdCardReady, sensorSettings, touchVars, wifiVars,
                 galleryCache, galleryDirty, recVars, strmVars, bgVars, fret>>

\* lines 1086-1113: the register a setting name selects, "none" when no
\* strcmp matches
SettingRegisterDefaulting(setting) ==
  CASE setting = "contrast" -> "contrast"
    [] setting = "saturation" -> "saturation"
    [] setting = "exposure" -> "aec_value"
    [] setting = "gain" -> "agc_gain"
    [] setting = "hmirror" -> "hmirror"
    [] setting = "vflip" -> "vflip"
    [] OTHER -> "brightness"
SettingRegister(setting) ==
  CASE setting = "brightness" -> "brightness"
    [] setting = "contrast" -> "contrast"
    [] setting = "saturation" -> "saturation"
    [] setting = "exposure" -> "aec_value"
    [] setting = "gain" -> "agc_gain"
    [] setting = "hmirror" -> "hmirror"
    [] setting = "vflip" -> "vflip"
    [] OTHER -> "none"

\* updateCameraSetting (1083-1114), sensor being set by initCamera (356)
UpdateCameraSetting(setting, value) ==
  IF SettingRegister(setting) = "none"
    THEN sensorSettings
    ELSE [sensorSettings EXCEPT ![SettingRegister(setting)] = value]

\* lines 1068-1073
WsSetting(param, value) ==
  /\ WsPoint
  /\ sensorSettings' = UpdateCameraSetting(param, value)
  /\ Heard(Text(TRUE, "setting", param), {}, NoOp)
  /\ fpc' = AfterWs
  /\ UNCHANGED <<camMutex, lastCapturedImage, sdCardReady, touchVars, wifiVars,
                 galVars, recVars, strmVars, bgVars, fret>>

\* the actions webSocketEvent has a branch for (lines 1041-1068)
Dispatched == WsStreamActions \cup WsCallActions \cup {"delete", "setting"}

\* a text deserializeJson rejects (line 1038), or an action no branch of
\* lines 1041-1068 compares equal to: the handler falls through to the break
WsOther(parsed, action) ==
  /\ WsPoint
  /\ ~parsed \/ action \notin Dispatched
  /\ Heard(Text(parsed, action, "none"), {}, NoOp)
  /\ fpc' = AfterWs
  /\ UNCHANGED <<camMutex, lastCapturedImage, sdCardReady, sensorSettings,
                 touchVars, wifiVars, galVars, recVars, strmVars, bgVars, fret>>

(***************************************************************************)
(* Touch gesture detector: lines 1343-1411 of loop() and lines 779-821 of  *)
(* the streaming loop.  touchValue is "above" or "below" TOUCH_THRESHOLD,  *)
(* or "equal" to it.  A timer that cannot be read before it is next reset  *)
(* is kept at 0.                                                           *)
(***************************************************************************)

TouchValues == {"above", "below", "equal"}

\* lines 1364 / 800
LongHoldDueLate(elapsed) == elapsed > LONG_HOLD_TIME
LongHoldDue(elapsed) == elapsed >= LONG_HOLD_TIME

\* lines 1364 / 800: the test of longHoldTriggered
NotYetTriggeredIgnored(triggered) == TRUE
NotYetTriggered(triggered) == ~triggered

\* lines 1361 / 798: longHoldTriggered = false on the release edge
FlagAfterReleaseKept == longHoldTriggered
FlagAfterRelease == FALSE

\* lines 1347-1382 / 785-819: press edge, release edge, long hold;
\* eT = currentTime - lastTouchTime when the hold test reads it
TouchEdges(touchValue, eT) ==
  LET pressed == touchValue = "above" /\ ~isTouched
      released == touchValue = "below" /\ isTouched
      touched == IF pressed THEN TRUE ELSE IF released THEN FALSE ELSE isTouched
      counter == IF pressed THEN touchCounter + 1 ELSE touchCounter
      lht == IF pressed THEN FALSE
             ELSE IF released THEN FlagAfterRelease ELSE longHoldTriggered
      sT == IF pressed THEN 0 ELSE eT
      hold == touched /\ NotYetTriggered(lht) /\ LongHoldDue(sT)
  IN [pressed |-> pressed, released |-> released, touched |-> touched,
      hold |-> hold,
      counter |-> IF hold THEN 0 ELSE counter,
      lht |-> (lht \/ hold),
      sT |-> IF touched /\ ~lht THEN sT ELSE 0,
      holds |-> IF hold THEN Inc2(holdCalls)
                ELSE IF pressed THEN 0 ELSE holdCalls,
      active |-> IF hold THEN ~streamActive ELSE streamActive,
      note |-> IF hold THEN {IF streamActive THEN "toggle_stopped"
                                             ELSE "toggle_started"}
                       ELSE {},
      gesture |-> IF hold THEN "none"
                  ELSE IF pressed
                         THEN (IF touchCounter = 0 THEN "down1"
                               ELSE IF gesture = "single" THEN "down2"
                               ELSE "other")
                  ELSE IF released /\ gesture = "down1" THEN "single"
                  ELSE IF released /\ gesture = "down2" THEN "double"
                  ELSE gesture,
      fresh |-> (pressed /\ touchCounter = 0) \/ hold]

\* line 1384
QuietElapsedEarly(elapsed) == elapsed >= DOUBLE_TAP_DELAY
QuietElapsed(elapsed) == elapsed > DOUBLE_TAP_DELAY

\* line 1386: the tap count that resolves to a capture
IsSingleTapNever(n) == FALSE
IsSingleTap(n) == n = 1

\* lines 1343-1408: one poll of loop(); eR = currentTime - lastTouchReleasedTime
MainTouchPoll(touchValue, eT, eR) ==
  /\ fpc = "loop"
  /\ eT \in TouchElapsed /\ eT >= sinceTouch
  /\ eR \in ReleaseElapsed /\ eR >= sinceRelease
  /\ LET e == TouchEdges(touchValue, eT)
         sR == IF e.released THEN 0 ELSE eR
         resolve == ~e.lht /\ e.counter > 0 /\ QuietElapsed(sR) /\ ~e.touched
     IN /\ e.pressed => touchCounter < MaxTaps
        /\ isTouched' = e.touched
        /\ touchCounter' = e.counter
        /\ longHoldTriggered' = e.lht
        /\ sinceTouch' = e.sT
        /\ sinceRelease' = IF ~e.touched /\ e.counter > 0 THEN sR ELSE 0
        /\ streamActive' = e.active
        /\ gesture' = e.gesture
        /\ holdCalls' = e.holds
        /\ Emit(e.note, NoReply, <<"poll", resolve>>, NoMeta)
        /\ IF ~resolve
             THEN /\ fpc' = "loop"
                  /\ capCalls' = IF e.fresh THEN 0 ELSE capCalls
                  /\ recCalls' = IF e.fresh THEN 0 ELSE recCalls
                  /\ UNCHANGED fret
             ELSE /\ fret' = "tp_reset"
                  /\ IF IsSingleTap(e.counter)
                       THEN /\ fpc' = "cf"
                            /\ capCalls' = Inc2(capCalls)
                            /\ UNCHANGED recCalls
                       ELSE /\ fpc' = IF ~isRecording THEN "sr" ELSE "st"
                            /\ recCalls' = Inc2(recCalls)
                            /\ UNCHANGED capCalls
  /\ UNCHANGED <<camMutex, lastCapturedImage, sdCardReady, sensorSettings, wifiVars, galVars,
                 recVars, captureRequested, streamFrameBuffer, frame_skip_counter,
                 streamElapsed, inStream, bgVars>>

\* line 1409, after the resolved action has returned
TouchResetKeep == touchCounter
TouchResetValue == 0

TouchReset ==
  /\ fpc = "tp_reset"
  /\ touchCounter' = TouchResetValue
  /\ sinceRelease' = IF touchCounter' > 0 THEN sinceRelease ELSE 0
  /\ gesture' = IF gesture = "single" THEN "done1"
                ELSE IF gesture = "double" THEN "done2" ELSE "none"
  /\ capCalls' = IF gesture \in {"single", "double"} THEN capCalls ELSE 0
  /\ recCalls' = IF gesture \in {"single", "double"} THEN recCalls ELSE 0
  /\ fpc' = "loop"
  /\ Silent
  /\ UNCHANGED <<camMutex, lastCapturedImage, sdCardReady, sensorSettings, isTouched,
                 longHoldTriggered, sinceTouch, holdCalls, wifiVars, galVars,
                 recVars, strmVars, bgVars, fret>>

\* lines 779-829: the stream loop's poll (when 100 ms have passed since the
\* last one) and the pacing delay that ends the iteration; eR = currentTime -
\* lastTouchReleasedTime, which this poll never reads
StreamTouchPoll(due, touchValue, eT, eR, ticks) ==
  /\ fpc = "s_touch"
  /\ eT \in TouchElapsed /\ eT >= sinceTouch
  /\ due => (eR \in ReleaseElapsed /\ eR >= sinceRelease)
  /\ streamElapsed' = Later(ticks)
  /\ fpc' = "s_top"
  /\ IF ~due
       THEN /\ Silent
            /\ UNCHANGED <<touchVars, streamActive>>
       ELSE LET e == TouchEdges(touchValue, eT)
            IN /\ e.pressed => touchCounter < MaxTaps
               /\ isTouched' = e.touched
               /\ touchCounter' = e.counter
               /\ longHoldTriggered' = e.lht
               /\ sinceTouch' = e.sT
               /\ sinceRelease' = IF e.released \/ e.touched \/ e.counter = 0
                                    THEN 0 ELSE eR
               /\ streamActive' = e.active
               /\ gesture' = e.gesture
               /\ holdCalls' = e.holds
               /\ capCalls' = IF e.fresh THEN 0 ELSE capCalls
               /\ recCalls' = IF e.fresh THEN 0 ELSE recCalls
               /\ Emit(e.note, NoReply, <<"streamPoll", FALSE>>, NoMeta)
  /\ UNCHANGED <<camMutex, lastCapturedImage, sdCardReady, sensorSettings, wifiVars, galVars,
                 recVars, captureRequested, streamFrameBuffer, frame_skip_counter,
                 inStream, bgVars, fret>>

(***************************************************************************)
(* Connection supervisor: lines 1289-1334 of loop(), run when 15 s have    *)
(* passed since the last check; connectWiFi (1123-1154) inline.            *)
(***************************************************************************)

\* line 1312
SessionIdleAlways == TRUE
SessionIdle == ~streamActive /\ ~isRecording

\* line 1322: the failure count that calls for a hard reset
RetriesExceededEarly(n) == n >= MAX_WIFI_RETRIES - 1
RetriesExceeded(n) == n >= MAX_WIFI_RETRIES

\* lines 1293-1296: the failure count after a check that finds the link up
CountAfterConnectedKept == consecutiveWiFiFailures
CountAfterConnected == IF ~wifiConnected THEN 0 ELSE consecutiveWiFiFailures

\* lines 1149, 1327: the counter after connectWiFi and the full reset
CountAfterResetKept == consecutiveWiFiFailures + 1
CountAfterReset == 0

\* line 1331: wifiConnected = false in the branch that skips the reconnect
ConnectedWhenBusyKept == wifiConnected
ConnectedWhenBusy == FALSE

SupervisionCheck(connectOk, mdnsOk) ==
  /\ fpc = "loop"
  /\ IF linkUp
       THEN /\ wifiConnected' = TRUE
            /\ consecutiveWiFiFailures' = CountAfterConnected
            /\ softRun' = 0
            /\ mdnsStarted' = (mdnsStarted \/ mdnsOk)
            /\ Emit({}, NoReply, <<"check_up", FALSE>>, NoMeta)
            /\ UNCHANGED linkUp
       ELSE /\ mdnsStarted' = FALSE
            /\ wifiConnected' =
                 IF SessionIdle
                   THEN RetriesExceeded(consecutiveWiFiFailures + 1) /\ connectOk
                   ELSE ConnectedWhenBusy
            /\ IF SessionIdle
                 THEN IF RetriesExceeded(consecutiveWiFiFailures + 1)
                        THEN /\ Emit({"wifi_soft", "wifi_hard"}, NoReply,
                                     <<"check_idle", FALSE>>, NoMeta)
                             /\ linkUp' = connectOk
                             /\ consecutiveWiFiFailures' = CountAfterReset
                             /\ softRun' = 0
                        ELSE /\ Emit({"wifi_soft"}, NoReply, <<"check_idle", FALSE>>, NoMeta)
                             /\ consecutiveWiFiFailures' = consecutiveWiFiFailures + 1
                             /\ softRun' = Inc2(softRun)
                             /\ UNCHANGED linkUp
                 ELSE /\ Emit({}, NoReply, <<"check_busy", FALSE>>, NoMeta)
                      /\ UNCHANGED <<linkUp, consecutiveWiFiFailures, softRun>>
  /\ fpc' = "loop"
  /\ UNCHANGED <<camMutex, lastCapturedImage, sdCardReady, sensorSettings, touchVars, galVars,
                 recVars, strmVars, bgVars, fret>>

\* the access point goes away / the station re-associates (setAutoReconnect,
\* or the WiFi.begin of a soft reconnect completing)
LinkDrop ==
  /\ linkUp
  /\ linkUp' = FALSE
  /\ UNCHANGED <<camMutex, lastCapturedImage, sdCardReady, sensorSettings, touchVars, wifiConnected,
                 consecutiveWiFiFailures, mdnsStarted, softRun, galVars, recVars,
                 strmVars,
                 bgVars, fgVars>>

LinkRestore ==
  /\ ~linkUp
  /\ linkUp' = TRUE
  /\ UNCHANGED <<camMutex, lastCapturedImage, sdCardReady, sensorSettings, touchVars, wifiConnected,
                 consecutiveWiFiFailures, mdnsStarted, softRun, galVars, recVars,
                 strmVars,
                 bgVars, fgVars>>

(***************************************************************************)
(* Steps of the system, grouped by who takes them.  Every specification     *)
(* below is built from these same actions; a specification that studies one *)
(* part of the firmware offers the foreground fewer requests and gestures.  *)
(***************************************************************************)
Names == {"jpg", "mjpeg"} \X Stamps

\* setting commands: two names the firmware knows, one it does not, and
\* the values sent; actions the firmware has no branch for (the README
\* lists recording_toggle)
SettingParams == {"brightness", "exposure", "zoom"}
SettingValues == {0, 1}
OtherActions == {"recording_toggle", "reboot"}
Ticks == 1..StreamTicks

\* startRecording, stopRecording, captureFrame, captureStreamFrame
Called ==
  \/ \E openOk \in BOOLEAN, s \in Stamps : StartRecording(openOk, s)
  \/ StartRecordingFlag
  \/ \E s \in Stamps : StartRecordingReset(s)
  \/ StopRecording
  \/ StopRecordingClose
  \/ \E metaOk \in BOOLEAN : StopRecordingMeta(metaOk)
  \/ CaptureFrame
  \/ \E fbOk, openOk \in BOOLEAN, s \in Stamps : CaptureFrameBody(fbOk, openOk, s)
  \/ CaptureStreamFrame
  \/ \E fbOk, thumbOk, openOk \in BOOLEAN, s \in Stamps :
        CaptureStreamFrameBody(fbOk, thumbOk, openOk, s)

\* handleStream, apart from its touch poll
Streaming ==
  \/ HandleStream
  \/ \E connected \in BOOLEAN : HandleStreamClient(connected)
  \/ \E connected, clientValid \in BOOLEAN : StreamTop(connected, clientValid)
  \/ \E slow \in BOOLEAN, ticks \in Ticks : StreamSend(slow, ticks)
  \/ StreamNoRequest
  \/ StreamNoMessage
  \/ StreamEnd

\* the HTTP handlers that touch the card
Http ==
  \/ \E rootOk \in BOOLEAN : HandleGallery(rootOk)
  \/ \E hasName, removeOk \in BOOLEAN, name \in Names :
        HandleDeleteImage(hasName, name, removeOk)
  \/ \E rootOk \in BOOLEAN, kept \in SUBSET AllFiles : HandleDeleteAll(rootOk, kept)
  \/ HandleCapture
  \/ HandleCaptureReply

\* webSocketEvent
WebSocket ==
  \/ \E action \in WsStreamActions : WsStream(action)
  \/ \E action \in WsCallActions : WsCall(action)
  \/ \E name \in Names, removeOk \in BOOLEAN : WsDelete(name, removeOk)
  \/ \E param \in SettingParams, value \in SettingValues : WsSetting(param, value)
  \/ \E parsed \in BOOLEAN, action \in OtherActions : WsOther(parsed, action)

\* the touch polls of loop() and of handleStream
Touch ==
  \/ \E touchValue \in TouchValues, eT \in TouchElapsed, eR \in ReleaseElapsed :
        MainTouchPoll(touchValue, eT, eR)
  \/ TouchReset
  \/ \E due \in BOOLEAN, touchValue \in TouchValues, eT \in TouchElapsed,
        eR \in ReleaseElapsed, ticks \in Ticks :
        StreamTouchPoll(due, touchValue, eT, eR, ticks)

\* the 15 s connectivity check and the radio link it observes
Supervisor ==
  \/ \E connectOk, mdnsOk \in BOOLEAN : SupervisionCheck(connectOk, mdnsOk)
  \/ LinkDrop
  \/ LinkRestore

\* the stream loop's touch poll with the pad left alone
StreamTouchIdle == \E ticks \in Ticks : StreamTouchPoll(FALSE, "below", 0, 0, ticks)

(***************************************************************************)
(* The whole firmware.                                                      *)
(***************************************************************************)
Next ==
  \/ Called
  \/ Streaming
  \/ Http
  \/ WebSocket
  \/ Touch
  \/ Supervisor
  \/ RecordingCaptureTask

Spec == Init /\ [][Next]_vars

(***************************************************************************)
(* The camera and its two users: network commands start and stop streams,   *)
(* recordings and stills while the background task records.  The pad is     *)
(* left alone, the link stays up and the card already holds every file name.*)
(***************************************************************************)
NextCam ==
  \/ Called
  \/ Streaming
  \/ \E action \in WsStreamActions : WsStream(action)
  \/ \E action \in WsCallActions : WsCall(action)
  \/ StreamTouchIdle
  \/ RecordingCaptureTask

SpecCam == InitUsedCard /\ [][NextCam]_vars

\* steps of the foreground context / of the background task
BgCritical == {"b_get", "b_rf", "b_thumb", "b_write", "b_inc", "b_incw", "b_give"}
FgCritical == {"cf_body", "csf_body"}

\* C1: the camera driver's frame acquire/release and the frame in hand are
\* never used by the foreground and the background task at the same time:
\* whenever one context is between its take and its give of the camera lock,
\* the other is not, and the lock names the context that is.
C1_MutualExclusion ==
  /\ ~(fpc \in FgCritical /\ bpc \in BgCritical)
  /\ (fpc \in FgCritical) <=> (camMutex = "fg")
  /\ (bpc \in BgCritical) <=> (camMutex = "bg")

\* the foreground asks for the lock while the background task holds a frame
C1_Witness == fpc \in {"cf", "csf"} /\ bpc = "b_write" /\ camMutex = "bg"

\* C2: the background recording task never takes the camera lock and never
\* pulls a frame from the device while streamActive is true.
C2_TaskIdleWhileStreaming ==
  [][((bpc = "b_take" /\ bpc' = "b_get") \/ (bpc = "b_get" /\ bpc' # "b_get"))
       => ~streamActive]_vars

\* C3: every way of leaving handleStream (the early return when the client
\* is already gone, and the teardown after the loop) leaves streamActive
\* false and emits the stopped notification.
C3_EveryExitAnnouncesStop ==
  [][(fpc \in {"hs_client", "s_end"} /\ fpc' = "loop")
       => (~streamActive' /\ "stream_stopped" \in out')]_vars

\* C8: startRecording called while a recording is active, and stopRecording
\* called while none is, change none of isRecording, the output file,
\* frameCount, the thumbnail flag and path, galleryDirty and the card, emit
\* no notification and return at once.
C8_StartStopIdempotent ==
  [][((fpc = "sr" /\ isRecording /\ fpc' # "sr")
        \/ (fpc = "st" /\ ~isRecording /\ fpc' # "st"))
       => (/\ UNCHANGED <<isRecording, videoFile, frameCount, thumbnailSaved,
                          currentThumbPath, galleryDirty, sdFiles, fileFrames>>
           /\ out' = {}
           /\ fpc' = fret)]_vars

\* a start command has just been ignored by a session that holds frames
C8_Witness == lastOp[1] = "startIgnored" /\ isRecording /\ frameCount > 0

(***************************************************************************)
(* One streaming session at a time, seen from a boot state or from the      *)
(* state a successful record_start leaves: the client or a command or a     *)
(* long hold may end the stream, or nothing does; the background task       *)
(* competes for the camera.  The scheduling the firmware can rely on is     *)
(* stated: the foreground task is never suspended for good, so a handler    *)
(* that has been entered keeps taking steps.  Each step is bounded code: a  *)
(* lock take with a timeout, a bounded delay.  Requests, commands and the   *)
(* background task's progress are not assumed.  Every loop iteration takes  *)
(* time (a slow capture, or the pacing delay of lines 823-829), counted in  *)
(* steps of StreamStep.                                                     *)
(***************************************************************************)
InitSession ==
  /\ SetupDefaults
  /\ AtLoopTops
  /\ sdCardReady = TRUE /\ sdFiles = AllFiles /\ mdnsStarted = TRUE
  /\ isRecording \in BOOLEAN
  /\ videoFile = isRecording
  /\ frameCount = 0 /\ fileFrames = 0 /\ flushes = 0 /\ thumbnailSaved = FALSE
  /\ currentThumbPath \in (IF isRecording THEN Stamps ELSE {0})

StreamSteps ==
  \/ Streaming
  \/ CaptureStreamFrame
  \/ \E fbOk, thumbOk, openOk \in BOOLEAN, s \in Stamps :
        CaptureStreamFrameBody(fbOk, thumbOk, openOk, s)
  \/ \E action \in WsStreamActions : WsStream(action)
  \/ \E due \in BOOLEAN, touchValue \in TouchValues, eT \in TouchElapsed,
        eR \in {0}, ticks \in Ticks :
        StreamTouchPoll(due, touchValue, eT, eR, ticks)

NextStream == StreamSteps \/ RecordingCaptureTask

HandlerStep == fpc # "loop" /\ StreamSteps

SpecStreamFair == InitSession /\ [][NextStream]_vars /\ WF_vars(HandlerStep)

StreamStopped == ~inStream /\ ~streamActive /\ "stream_stopped" \in out

\* C4: once handleStream is in its loop the loop terminates, with
\* streamActive false and the stopped notification emitted, even if the
\* client stays connected and nothing clears the flag: the iteration top
\* that finds more than STREAM_TIMEOUT elapsed leaves the loop.
C4_StreamLoopTerminates ==
  /\ inStream ~> StreamStopped
  /\ [][(fpc = "s_top" /\ streamElapsed > STREAM_TIMEOUT /\ fpc' # "s_top")
          => fpc' = "s_end"]_vars

\* the loop is left by the timeout, the flag still set
C4_Witness == fpc = "s_end" /\ lastOp[1] = "exit_timeout" /\ streamActive

(***************************************************************************)
(* The connection supervisor beside the sessions it must not disturb: the   *)
(* link drops and returns while commands start and stop recordings and set  *)
(* and clear the streaming flag, and the background task records.  (While   *)
(* handleStream runs, loop() and with it the supervisor does not.)          *)
(***************************************************************************)
RecordCommands == {"record_start", "record_stop"}

RecordingSteps ==
  \/ \E openOk \in BOOLEAN, s \in Stamps : StartRecording(openOk, s)
  \/ StartRecordingFlag
  \/ \E s \in Stamps : StartRecordingReset(s)
  \/ StopRecording
  \/ StopRecordingClose
  \/ \E metaOk \in BOOLEAN : StopRecordingMeta(metaOk)

NextNet ==
  \/ Supervisor
  \/ RecordingSteps
  \/ \E action \in WsStreamActions : WsStream(action)
  \/ \E action \in RecordCommands : WsCall(action)
  \/ RecordingCaptureTask

SpecNet == InitUsedCard /\ [][NextNet]_vars

WiFiCalls == {"wifi_soft", "wifi_hard"}

\* C5: the supervisor issues neither a soft reconnect nor a hard reset at
\* a check made while streamActive or isRecording is true.  out holds what
\* the last foreground step issued, and only the foreground changes either
\* flag, so the state a reconnecting check leaves shows both flags as the
\* check found them.
C5_NoReconnectDuringSession ==
  (out \cap WiFiCalls # {}) => (~streamActive /\ ~isRecording)

\* a check has just found the link down during a recording and left it alone
C5_Witness == lastOp[1] = "check_busy" /\ ~linkUp /\ isRecording /\ frameCount > 0

(***************************************************************************)
(* The gallery and everything that changes the card, from a first boot on   *)
(* an empty card: HTTP and WebSocket deletes, stills taken directly or      *)
(* through a stream, recordings started and stopped.                        *)
(***************************************************************************)
NextGallery ==
  \/ Http
  \/ Called
  \/ Streaming
  \/ \E action \in WsStreamActions : WsStream(action)
  \/ \E action \in WsCallActions : WsCall(action)
  \/ \E name \in Names, removeOk \in BOOLEAN : WsDelete(name, removeOk)
  \/ StreamTouchIdle

SpecGallery == InitWith({}, BOOLEAN, {TRUE}) /\ [][NextGallery]_vars

Mutations == {"capture", "streamCapture", "delete", "wsDelete", "deleteAll",
              "recordStop"}

\* C6: the listing handleGallery returns right after a completed delete,
\* still capture or record-stop is the enumeration of the card at that time
\* (the card being readable).
C6_ListingFreshAfterMutation ==
  [][(lastOp[1] \in Mutations /\ lastOp[2] /\ lastOp'[1] = "gallery")
       => reply' = <<200, Listing(sdFiles')>>]_vars

\* C7: every capture, delete, delete-all and record-stop leaves galleryDirty
\* true when it completes, whether or not its file operation succeeded.
C7_MutationMarksDirty == (lastOp[1] \in Mutations) => galleryDirty

(***************************************************************************)
(* stopRecording over the range of frame counts: a stop command reaches a   *)
(* session that holds any number of frames up to MaxStopFrames, while the   *)
(* background task is idle or has a frame written and not yet counted.      *)
(***************************************************************************)
InitStop ==
  /\ SetupDefaults
  /\ sdCardReady = TRUE /\ sdFiles = AllFiles /\ mdnsStarted = TRUE
  /\ isRecording = TRUE /\ videoFile = TRUE
  /\ frameCount \in 0..MaxStopFrames
  /\ bpc \in {"b_check", "b_inc"}
  /\ camMutex = IF bpc = "b_inc" THEN "bg" ELSE "free"
  /\ framesOut = IF bpc = "b_inc" THEN 1 ELSE 0
  /\ flushes = frameCount \div FLUSH_INTERVAL
  /\ fileFrames = IF bpc = "b_inc" THEN frameCount + 1 ELSE frameCount
  /\ thumbnailSaved \in (IF fileFrames > 0 THEN BOOLEAN ELSE {FALSE})
  /\ currentThumbPath \in Stamps
  /\ fpc = "st" /\ fret = "loop"

NextStop ==
  \/ StopRecording
  \/ StopRecordingClose
  \/ \E metaOk \in BOOLEAN : StopRecordingMeta(metaOk)
  \/ RecordingCaptureTask

SpecStop == InitStop /\ [][NextStop]_vars

\* C9: the duration stopRecording writes to the sidecar is
\* floor(frameCount / 15) for the frameCount it holds when it computes it:
\* 15 * duration <= frameCount < 15 * (duration + 1).
C9_DurationIsFloor ==
  [][(fpc = "st_meta" /\ metaDuration' # NoMeta)
       => (/\ 15 * metaDuration' <= frameCount
           /\ frameCount < 15 * (metaDuration' + 1))]_vars

\* 47 frames have been recorded as 3 seconds
C9_Witness == lastOp[1] = "recordStop" /\ frameCount = 47 /\ metaDuration = 3

(***************************************************************************)
(* The touch pad: every reading at every poll, in loop() and in the stream  *)
(* loop, with the actions the gestures call.                                *)
(***************************************************************************)
NextTouch ==
  \/ Touch
  \/ Called
  \/ Streaming

SpecTouch == InitUsedCard /\ [][NextTouch]_vars

C12_LongHoldFiresOnce ==
  [][/\ holdCalls' <= 1
     /\ (isTouched' /\ sinceTouch' >= LONG_HOLD_TIME)
          => (holdCalls' = 1 /\ longHoldTriggered')
     /\ (holdCalls' > holdCalls)
          => (/\ isTouched' /\ sinceTouch' >= LONG_HOLD_TIME
              /\ streamActive' = ~streamActive)
     /\ (holdCalls' = 1)
          => (/\ touchCounter' = 0 /\ capCalls' = 0 /\ recCalls' = 0
              /\ fpc' \notin {"cf", "sr", "st", "tp_reset"})]_vars

\* the toggle has fired and a later poll of the streaming loop has seen the
\* pad still held
C12_Witness ==
  /\ holdCalls = 1 /\ isTouched /\ longHoldTriggered /\ sinceTouch = 0
  /\ inStream /\ fpc = "s_top"

(***************************************************************************)
(* Captures: captureFrame called by GET /capture and by the WebSocket      *)
(* action "capture", with and without a streaming session, next to a       *)
(* recording that may be running; GET /gallery reads the listing.          *)
(***************************************************************************)
CaptureSteps ==
  \/ CaptureFrame
  \/ \E fbOk, openOk \in BOOLEAN, s \in Stamps : CaptureFrameBody(fbOk, openOk, s)
  \/ CaptureStreamFrame
  \/ \E fbOk, thumbOk, openOk \in BOOLEAN, s \in Stamps :
        CaptureStreamFrameBody(fbOk, thumbOk, openOk, s)
  \/ HandleCapture
  \/ HandleCaptureReply
  \/ WsCall("capture")

NextCapture ==
  \/ CaptureSteps
  \/ Streaming
  \/ \E action \in WsStreamActions : WsStream(action)
  \/ \E rootOk \in BOOLEAN : HandleGallery(rootOk)
  \/ StreamTouchIdle
  \/ RecordingCaptureTask

SpecCapture == InitSession /\ [][NextCapture]_vars

\* C13: a call of captureFrame that finds streamActive true returns at once
\* having set captureRequested and nothing else: camMutex is not taken, no
\* frame is pulled from the camera (the frame buffer in hand and the last
\* captured image are untouched), no file is written, galleryDirty and the
\* gallery cache keep their values and no notification is sent.
C13_CaptureDeferredWhileStreaming ==
  [][(fpc = "cf" /\ streamActive /\ fpc' # fpc)
       => (/\ captureRequested' /\ fpc' = fret
           /\ UNCHANGED <<camMutex, streamFrameBuffer, lastCapturedImage,
                          sdFiles, galleryDirty, galleryCache, streamActive,
                          recVars>>
           /\ out' = {} /\ lastOp' = NoOp)]_vars

\* a capture has just been deferred while the listing was clean and no
\* request was pending before
C13_Witness ==
  /\ captureRequested /\ streamActive /\ ~galleryDirty /\ camMutex = "free"
  /\ lastOp = NoOp /\ fpc \in {"loop", "s_touch", "s_ws", "hc_reply"}
  /\ ~lastCapturedImage

\* C14: a capture request deferred to the streaming loop is not carried
\* over to a later streaming session: whenever streaming becomes active
\* (streamActive goes from false to true) no request is pending, every
\* request having been made while an earlier session was streaming.
C14_RequestNotCarriedOver ==
  [][(~streamActive /\ streamActive') => ~captureRequested']_vars

\* the polls of the touch detector
TouchPolls == {"poll", "streamPoll"}

\* C15: every poll of the touch detector, by loop() or by the streaming
\* loop, that finds the pad not pressed, touchCounter > 0 and more than
\* DOUBLE_TAP_DELAY elapsed since the last release resolves the taps: it
\* calls captureFrame for one tap and a record toggle for more, with the
\* reset of touchCounter to follow the call.
C15_EveryPollResolvesTaps ==
  [][(/\ lastOp'[1] \in TouchPolls
      /\ ~isTouched' /\ touchCounter' > 0
      /\ sinceRelease' > DOUBLE_TAP_DELAY)
       => (/\ fret' = "tp_reset"
           /\ fpc' = (IF touchCounter' = 1 THEN "cf"
                      ELSE IF isRecording THEN "st" ELSE "sr"))]_vars


\* C16: while a recording session is active frameCount never decreases: in
\* every step that starts and ends with isRecording true, whichever context
\* takes it, frameCount' >= frameCount.
C16_FrameCountMonotonic ==
  [][(isRecording /\ isRecording') => frameCount' >= frameCount]_vars


\* C17: a supervision check performs a hard reset only when its increment
\* takes consecutiveWiFiFailures to MAX_WIFI_RETRIES, and then at least two
\* earlier checks found the link down and issued a soft reconnect only, with
\* no check that found the link up (and no hard reset) since; the check
\* leaves consecutiveWiFiFailures at 0.  (out holds the calls of the last
\* foreground step, so the hard reset is performed by the step that puts
\* "wifi_hard" there.)
C17_HardResetAfterThreeFailures ==
  [][("wifi_hard" \in out' \ out)
       => (/\ lastOp'[1] = "check_idle"
           /\ consecutiveWiFiFailures + 1 = MAX_WIFI_RETRIES
           /\ softRun = 2
           /\ ~linkUp
           /\ consecutiveWiFiFailures' = 0)]_vars

\* a hard reset has just been performed and has failed to reconnect
C17_Witness ==
  /\ "wifi_hard" \in out /\ consecutiveWiFiFailures = 0 /\ softRun = 0
  /\ ~linkUp /\ ~wifiConnected

\* C18: a supervision check that finds the link connected leaves
\* consecutiveWiFiFailures at 0 and wifiConnected true.
C18_ConnectedCheckClearsFailures ==
  (lastOp[1] = "check_up") => (consecutiveWiFiFailures = 0 /\ wifiConnected)

\* a check has just found the link connected again after an earlier check
\* had found it down (mDNS dropped and not yet restarted)
C18_Witness ==
  /\ lastOp[1] = "check_up" /\ consecutiveWiFiFailures = 0 /\ wifiConnected
  /\ linkUp /\ softRun = 0 /\ ~mdnsStarted


(***************************************************************************)
(* WebSocket commands: the text messages webSocketEvent can receive (file  *)
(* deletion apart), handled by loop() next to a recording that may be      *)
(* running; GET /gallery reads the listing.                                *)
(***************************************************************************)
NextWs ==
  \/ \E action \in WsStreamActions : WsStream(action)
  \/ \E action \in WsCallActions : WsCall(action)
  \/ \E param \in SettingParams : WsSetting(param, 1)
  \/ \E parsed \in BOOLEAN, action \in OtherActions : WsOther(parsed, action)
  \/ RecordingSteps
  \/ CaptureFrame
  \/ \E fbOk, openOk \in BOOLEAN, s \in Stamps : CaptureFrameBody(fbOk, openOk, s)
  \/ \E rootOk \in BOOLEAN : HandleGallery(rootOk)
  \/ RecordingCaptureTask

SpecWs == InitUsedCard /\ [][NextWs]_vars

\* C19: a WebSocket text message that does not parse, or whose action is
\* none of stream_start, stream_stop, stream_toggle, capture, record_start,
\* record_stop, delete and setting, or a setting command whose parameter is
\* none of brightness, contrast, saturation, exposure, gain, hmirror and
\* vflip, is handled in one step of the foreground that leaves
\* streamActive, isRecording, captureRequested, galleryDirty, frameCount
\* and the sensor registers as they were and sends no notification.
\* (received is the message the last foreground step handled; the steps of
\* the background task leave it in place and are told apart by bgVars.)
C19_UnrecognizedMessageIgnored ==
  [][(/\ received'.text
      /\ \/ ~received'.parsed
         \/ received'.action \notin
              {"stream_start", "stream_stop", "stream_toggle", "capture",
               "record_start", "record_stop", "delete", "setting"}
         \/ /\ received'.action = "setting"
            /\ received'.param \notin
                 {"brightness", "contrast", "saturation", "exposure", "gain",
                  "hmirror", "vflip"}
      /\ UNCHANGED bgVars)
       => (/\ UNCHANGED <<streamActive, isRecording, captureRequested,
                          galleryDirty, frameCount, sensorSettings>>
           /\ out' = {})]_vars

\* a setting command with an unknown parameter has just been handled during
\* a recording, after the registers had been changed and the listing read
C19_Witness ==
  /\ received = Text(TRUE, "setting", "zoom")
  /\ isRecording /\ frameCount > 0 /\ streamActive /\ ~galleryDirty
  /\ sensorSettings # SensorDefaults

\* C20: the action recording_toggle is accepted: the step that handles the
\* message on a mounted card starts or stops the recording, so that when
\* the handler has returned isRecording is the negation of what it was.
C20_RecordingToggleAccepted ==
  [][(/\ received' = Text(TRUE, "recording_toggle", "none")
      /\ UNCHANGED bgVars
      /\ sdCardReady)
       => \/ fpc' = (IF isRecording THEN "st" ELSE "sr")
          \/ isRecording' = ~isRecording]_vars


\* C21: the streaming loop writes a frame to the client only in an
\* iteration whose captureStreamFrame obtained it from the camera: no step
\* sends the buffer left by an earlier iteration ("frame_again"), so after
\* a lock timeout or a NULL frame nothing is sent.
C21_OnlyNewFramesSent == "frame_again" \notin out


\* C22: frame_skip_counter counts consecutive slow iterations of the
\* streaming loop: an iteration that skips its frame as slow raises it by
\* one and stays below SLOW_FRAME_LIMIT, and an iteration that sends its
\* frame (it was not slow, or it was the third slow one in a row) leaves it
\* at 0; neither kind of iteration ends the session.
C22_SlowCounterConsecutive ==
  [][(fpc = "s_send" /\ fpc' # fpc /\ streamFrameBuffer # "empty")
       => /\ fpc' = "s_top"
            => (/\ frame_skip_counter' = frame_skip_counter + 1
                /\ frame_skip_counter' < SLOW_FRAME_LIMIT)
          /\ fpc' # "s_top"
            => (frame_skip_counter' = 0 /\ fpc' = "s_http")
          /\ UNCHANGED <<streamActive, inStream>>]_vars


\* C23: an iteration of the streaming loop that has acquired a frame goes
\* on to server.handleClient, webSocket.loop and the touch poll before the
\* loop condition is tested again: from the send decision with a fresh
\* frame the loop passes to its command processing, never straight back
\* to the top.
C23_IterationProcessesCommands ==
  [][(fpc = "s_send" /\ streamFrameBuffer = "fresh" /\ fpc' # fpc)
       => fpc' = "s_http"]_vars


\* C24: within a recording session only the first frame appended to the
\* video file is written as the thumbnail: whenever a step saves the
\* thumbnail (thumbnailSaved turns true), no frame of the session has been
\* appended before the one in hand.
C24_ThumbnailOnlyFirstFrame ==
  [][(~thumbnailSaved /\ thumbnailSaved') => fileFrames = 0]_vars


\* C25: while the streaming loop runs and a recording is active, every
\* frame captureStreamFrame acquires is appended to the recording once:
\* the step that acquires it raises frameCount and the frames in the file
\* by exactly 1, and the step that then declines to send it as slow
\* changes neither.
C25_StreamFrameRecordedOnce ==
  [][/\ (fpc = "csf_body" /\ streamFrameBuffer' = "fresh" /\ isRecording)
          => (frameCount' = frameCount + 1 /\ fileFrames' = fileFrames + 1)
     /\ (fpc = "s_send" /\ fpc' # fpc)
          => UNCHANGED <<frameCount, fileFrames>>]_vars

\* a frame acquired by the stream has been recorded and then skipped as slow
C25_Witness ==
  /\ inStream /\ fpc = "s_top" /\ frame_skip_counter = 1 /\ isRecording
  /\ frameCount = 1 /\ fileFrames = 1 /\ bpc = "b_check"
  /\ streamFrameBuffer = "stale"


NextCancel ==
  \/ Streaming
  \/ CaptureStreamFrame
  \/ \E fbOk \in BOOLEAN : CaptureStreamFrameBody(fbOk, TRUE, TRUE, 1)
  \/ \E action \in WsStreamActions : WsStream(action)
  \/ \E due \in BOOLEAN, touchValue \in TouchValues,
        eT \in {0, LONG_HOLD_TIME} : StreamTouchPoll(due, touchValue, eT, 0, 1)
  \/ RecordingCaptureTask
  \/ WsCall("record_stop")
  \/ StopRecording
  \/ StopRecordingClose
  \/ \E metaOk \in BOOLEAN : StopRecordingMeta(metaOk)

SpecCancel == InitSession /\ [][NextCancel]_vars

\* C27: once streamActive has been cleared inside the streaming loop (by
\* stream_stop, stream_toggle or a long hold) the loop is on its way to the
\* loop condition with no acquisition in between; the loop condition that
\* finds the flag false leaves the loop, and the teardown emits the stopped
\* notification.  The recording task that finds isRecording false at the
\* top of its loop starts no acquisition; the step that clears isRecording
\* leaves the task and the lock alone, and an acquisition under way runs
\* on to its give.
C27_CooperativeCancellation ==
  [][/\ (inStream' /\ ~streamActive') => fpc' \in {"s_touch", "s_top", "s_end"}
     /\ (fpc = "s_top" /\ ~streamActive /\ fpc' # fpc) => fpc' = "s_end"
     /\ (fpc = "s_end" /\ fpc' # fpc)
          => ("stream_stopped" \in out' /\ ~inStream' /\ ~streamActive')
     /\ (bpc = "b_check" /\ ~isRecording) => bpc' = "b_check"
     /\ (isRecording /\ ~isRecording') => UNCHANGED <<bgVars, camMutex>>
     /\ (bpc \in BgCritical /\ bpc' # bpc)
          => \/ bpc' \in BgCritical
             \/ (bpc = "b_give" /\ bpc' = "b_check" /\ camMutex' = "free")]_vars

\* a long hold inside the loop has cleared the flag and the loop has left
\* at its next check, while the task finishes a frame of a recording that
\* record_stop has just ended
C27_Witness ==
  /\ fpc = "s_end" /\ lastOp[1] = "exit_flag" /\ holdCalls = 1
  /\ ~isRecording /\ bpc \in BgCritical

\* C28: every shared session scalar has one writing context at a time.  A
\* step of the recording task leaves streamActive, isRecording,
\* captureRequested and galleryDirty alone; while the task is inside
\* recordFrame (lines 294-319) no foreground step writes frameCount or
\* thumbnailSaved; and while the foreground is at startRecording's reset or
\* in the stream's recordFrame no task step writes them.
C28_SingleWriter ==
  [][/\ ~(UNCHANGED bgVars)
          => UNCHANGED <<streamActive, isRecording, captureRequested,
                         galleryDirty>>
     /\ (bpc \in {"b_rf", "b_thumb", "b_write", "b_inc", "b_incw"}
           /\ UNCHANGED bgVars)
          => UNCHANGED <<frameCount, thumbnailSaved>>
     /\ (fpc \in {"sr_reset", "csf_body"} /\ ~(UNCHANGED bgVars))
          => UNCHANGED <<frameCount, thumbnailSaved>>]_vars

NextDirty ==
  \/ \E rootOk \in BOOLEAN : HandleGallery(rootOk)
  \/ \E removeOk \in BOOLEAN : HandleDeleteImage(TRUE, <<"jpg", 1>>, removeOk)
  \/ \E rootOk \in BOOLEAN : HandleDeleteAll(rootOk, {})
  \/ HandleCapture
  \/ HandleCaptureReply
  \/ CaptureFrame
  \/ \E fbOk, openOk \in BOOLEAN : CaptureFrameBody(fbOk, openOk, 1)
  \/ \E action \in {"capture", "record_stop"} : WsCall(action)
  \/ StopRecording
  \/ StopRecordingClose
  \/ \E metaOk \in BOOLEAN : StopRecordingMeta(metaOk)
  \/ RecordingCaptureTask

SpecDirty == InitSession /\ [][NextDirty]_vars

DirtyWriters == {"capture", "streamCapture", "delete", "deleteAll",
                 "recordStop"}

\* C30: galleryDirty goes from true to false only in the gallery handler's
\* rebuild, a foreground step that leaves the card alone and stores the
\* listing of the card as it is then (or the empty listing when the card
\* cannot be read); it goes from false to true only in a foreground
\* mutation; no step of the recording task changes it, so a mark set by a
\* completed mutation stays until a rebuild that runs after it.
C30_DirtyClearedOnlyByRebuild ==
  [][/\ (galleryDirty /\ ~galleryDirty')
          => /\ lastOp'[1] \in {"gallery", "galleryEmpty"}
             /\ UNCHANGED <<bgVars, sdFiles>>
             /\ \/ galleryCache' = Listing(sdFiles)
                \/ (lastOp'[1] = "galleryEmpty" /\ galleryCache' = EmptyListing)
     /\ (~galleryDirty /\ galleryDirty')
          => (lastOp'[1] \in DirtyWriters /\ UNCHANGED bgVars)
     /\ (galleryDirty /\ lastOp'[1] \in DirtyWriters /\ UNCHANGED bgVars)
          => galleryDirty'
     /\ ~(UNCHANGED bgVars) => UNCHANGED <<galleryDirty, galleryCache>>]_vars

\* a delete has marked the gallery dirty after an earlier rebuild, and the
\* recording task has run on between the mutation and now: the mark is
\* still there and the cache is the stale listing
C30_Witness ==
  /\ galleryDirty /\ lastOp = <<"delete", TRUE>>
  /\ galleryCache # {} /\ galleryCache # Listing(sdFiles)
  /\ bpc \in BgCritical

(***************************************************************************)
(* Gallery reads on a card that may have failed to mount and whose root    *)
(* may fail to open, between stills and deletes.                           *)
(***************************************************************************)
NextListing ==
  \/ \E rootOk \in BOOLEAN : HandleGallery(rootOk)
  \/ \E hasName, removeOk \in BOOLEAN, name \in Names :
        HandleDeleteImage(hasName, name, removeOk)
  \/ \E rootOk \in BOOLEAN, kept \in SUBSET AllFiles : HandleDeleteAll(rootOk, kept)
  \/ HandleCapture
  \/ HandleCaptureReply
  \/ CaptureFrame
  \/ \E fbOk, openOk \in BOOLEAN, s \in Stamps : CaptureFrameBody(fbOk, openOk, s)

SpecListing == InitWith(AllFiles, BOOLEAN, {TRUE}) /\ [][NextListing]_vars

GalleryReads == {"gallery", "galleryEmpty"}

\* C31: a gallery read answers 200; with the card not mounted, or when the
\* rebuild cannot open the root directory, the answer and the cache are the
\* fixed empty listing; the answer is always the empty listing or the
\* complete listing held in the cache, never a partly built one.
C31_EmptyListingWhenStorageUnavailable ==
  [][(lastOp'[1] \in GalleryReads)
       => /\ reply'[1] = 200
          /\ reply'[2] = galleryCache'
          /\ ~sdCardReady => reply'[2] = EmptyListing
          /\ lastOp'[1] = "galleryEmpty" => reply'[2] = EmptyListing
          /\ (galleryCache' # galleryCache)
               => galleryCache' \in {EmptyListing, Listing(sdFiles)}]_vars

\* the root of a mounted card that holds pictures could not be opened and
\* the read answered 200 with the empty listing
C31_Witness ==
  /\ lastOp[1] = "galleryEmpty" /\ reply = <<200, EmptyListing>>
  /\ sdCardReady /\ Listing(sdFiles) # EmptyListing

\* C32: while a recording runs, the step that counts an appended frame
\* issues a flush exactly when the new frame count is a multiple of 20, and
\* no other step of the recording issues one.
C32_FlushEveryTwentiethFrame ==
  [][IF frameCount' = frameCount + 1
       THEN flushes' = flushes + (IF frameCount' % 20 = 0 THEN 1 ELSE 0)
       ELSE flushes' = flushes]_vars

\* frame 40 has just been counted and flushed, the second flush of a file
\* on which frame 20 was flushed before
C32_Witness ==
  /\ frameCount = 40 /\ flushes = 2 /\ fileFrames = 40 /\ bpc = "b_give"

\* C33: every frame write of the recording task's recordFrame (lines
\* 308-312) finds the output file open: no write is issued after
\* stopRecording has closed the file.
C33_NoWriteAfterClose ==
  [][(bpc = "b_write" /\ bpc' = "b_inc") => videoFile]_vars

\* C34: the frameCount stopRecording reads for the duration (line 231) is
\* the number of frames appended to the session's output file since
\* startRecording opened it.
C34_CountMatchesFile ==
  [][(fpc = "st_meta" /\ fpc' # fpc) => frameCount = fileFrames]_vars

(***************************************************************************)
(* Progress of a recording: the recording task against the stream commands *)
(* and record_stop arriving at loop(), no /stream request being served.    *)
(* The task is scheduled whenever the foreground blocks, and a camera that *)
(* works delivers a frame to a task that keeps asking.                     *)
(***************************************************************************)
\* stopRecording, once entered, runs to its end
StopSteps ==
  \/ StopRecording
  \/ StopRecordingClose
  \/ \E metaOk \in BOOLEAN : StopRecordingMeta(metaOk)

NextProgress ==
  \/ \E action \in WsStreamActions : WsStream(action)
  \/ WsCall("record_stop")
  \/ StopSteps
  \/ RecordingCaptureTask

SpecProgress ==
  /\ InitSession
  /\ [][NextProgress]_vars
  /\ WF_vars(StopSteps)
  /\ WF_vars(RecordingCaptureTask)
  /\ SF_vars(BgGet(TRUE))

\* C35: a recording that is active makes progress: from every state with
\* isRecording true and fewer than MaxFrames frames counted, either the
\* recording is stopped or frameCount grows, also after streamActive has
\* been set by a command while no stream loop runs.
C35_RecordingProgresses ==
  \A n \in 0..(MaxFrames - 1) :
     (isRecording /\ frameCount = n) ~> (~isRecording \/ frameCount > n)

\* C36: handleCapture answers 200 exactly when the captureFrame it has
\* just called stored a new frame, and 500 when that call was deferred,
\* found the lock taken, got no frame or could not open the file.
C36_CaptureReplyIsThisCapture ==
  [][(fpc = "hc_reply" /\ fpc' # fpc)
       => /\ reply'[1] \in {200, 500}
          /\ reply'[1] = 200 <=> lastOp = <<"capture", TRUE>>]_vars

\* C37: when the output file cannot be opened, startRecording returns with
\* the session idle: isRecording stays false, frameCount, thumbnailSaved
\* and the thumbnail path keep their values and no recording_status
\* notification is emitted.
C37_FailedOpenLeavesIdle ==
  [][(fpc = "sr" /\ fpc' # fpc /\ ~isRecording /\ ~videoFile')
       => /\ ~isRecording'
          /\ UNCHANGED <<frameCount, thumbnailSaved, currentThumbPath>>
          /\ out' \cap {"recording_started", "recording_stopped"} = {}
          /\ fpc' = fret]_vars

\* the open has failed after an earlier session that counted a frame and
\* saved its thumbnail: both values are still there
C37_Witness ==
  /\ lastOp[1] = "startFailed" /\ ~isRecording /\ ~videoFile
  /\ frameCount = 1 /\ thumbnailSaved

\* C38: between supervision checks wifiConnected true implies
\* consecutiveWiFiFailures = 0, and the counter lies in
\* 0..MAX_WIFI_RETRIES-1: it never exceeds MAX_WIFI_RETRIES.
C38_FailureCounterBounded ==
  /\ wifiConnected => consecutiveWiFiFailures = 0
  /\ consecutiveWiFiFailures \in 0..(MAX_WIFI_RETRIES - 1)

\* the check that counted the third failure has run the full reset,
\* connectWiFi has connected, and the counter is back at 0
C38_Witness ==
  /\ lastOp[1] = "check_idle" /\ "wifi_hard" \in out
  /\ wifiConnected /\ consecutiveWiFiFailures = 0 /\ linkUp

\* C39: whenever longHoldTriggered is true the pad is marked pressed and
\* touchCounter is 0, after every touch poll of loop() and of the stream
\* loop: the long-hold flag is never set while the pad is marked released.
C39_LongHoldFlagOnlyWhilePressed ==
  longHoldTriggered => (isTouched /\ touchCounter = 0)

\* a poll of the stream loop has just fired the long hold on a pad that is
\* still pressed
C39_Witness ==
  /\ lastOp[1] = "streamPoll" /\ longHoldTriggered /\ isTouched
  /\ touchCounter = 0 /\ holdCalls = 1 /\ inStream

====
